---------------------------- MODULE Spec2Model ----------------------------
(***************************************************************************)
(* Elderly voice assistant: the emergency classifier (app.py               *)
(* ml_emergency_check and its background model loader), the rate-limited   *)
(* alert dispatcher of app.py (send_emergency_alert, the /voice_input      *)
(* route and the background mic monitor) and the retrying dispatcher of    *)
(* utils/emergency_alert.py with its two callers.                          *)
(*                                                                         *)
(* Texts are sequences of one-character strings.  Times are whole seconds. *)
(***************************************************************************)
EXTENDS Integers, Sequences, FiniteSets, TLC

VARIABLES
    \* ---- classifier (app.py 106-155)
    TRANSFORMERS_AVAILABLE, \* app.py 19-24: the import of transformers worked
    loader_pc,              \* position of the load_ml_model_background thread
    tokenizer,              \* app.py 107
    model,                  \* app.py 108
    model_ready,            \* app.py 109
    text,                   \* the text handed to ml_emergency_check
    check,                  \* what the last ml_emergency_check call did
    \* ---- alert dispatcher of app.py (49-103, 249-360)
    env,                    \* the environment variables that are set
    client_ok,              \* app.py 87: Client(...) did not raise
    time,                   \* time.time(), in seconds
    alert_last_time,        \* app.py 103: _alert_last_time
    last_alert_time,        \* app.py 289: the mic monitor's own timestamp
    latest_location_url,    \* app.py 101
    last_call,              \* the latest send_emergency_alert call
    prior,                  \* the calls before it: when the latest of them,
                            \* and the latest successful one, started
    sms_body,               \* body of the last client.messages.create call
    resp,                   \* what the last /voice_input request returned
    th,                     \* the threads inside app.py send_emergency_alert
    u                       \* the utils/emergency_alert.py dispatch under way

clsVars == <<TRANSFORMERS_AVAILABLE, loader_pc, tokenizer, model, model_ready>>
chkVars == <<text, check>>
cfgVars == <<env, client_ok>>
concVars == <<th>>
utilVars == <<u>>
appVars == <<time, alert_last_time, last_alert_time, latest_location_url,
             last_call, prior, sms_body, resp>>
vars == <<TRANSFORMERS_AVAILABLE, loader_pc, tokenizer, model, model_ready,
          text, check, env, client_ok, time, alert_last_time,
          last_alert_time, latest_location_url, last_call, prior, sms_body,
          resp, th, u>>

None == "None"

-----------------------------------------------------------------------------
(* Bounds of the model. *)

\* longest text the classifier is given
MaxLen == 5

\* the clock when the process starts (time.time() is seconds since 1970, far
\* above either cooldown)
StartTime == 1000

\* seconds the clock advances in one step
TickStep == 30

\* clock steps in a run
MaxTicks == 2

-----------------------------------------------------------------------------
(* Texts. *)

\* the characters texts are drawn from: the letters of the keyword "help",
\* and one of them in upper case
Alphabet == {"h", "H", "e", "l", "p"}

RECURSIVE TextsOfLen(_)
TextsOfLen(n) ==
    IF n = 0 THEN {<<>>}
    ELSE {Append(s, c) : s \in TextsOfLen(n - 1), c \in Alphabet}

Texts == UNION {TextsOfLen(n) : n \in 0..MaxLen}

\* str.lower() on one character that does not fold
LowerCharNoFold(c) == c

\* str.lower() on one character
LowerChar(c) ==
    CASE c = "H" -> "h"
      [] c = "P" -> "p"
      [] OTHER -> c

\* str.lower()
Lower(s) == [i \in 1..Len(s) |-> LowerChar(s[i])]

\* Python's `kw in txt` on strings: kw occurs in txt as a contiguous run
In(kw, txt) ==
    \E i \in 1..(Len(txt) - Len(kw) + 1) : SubSeq(txt, i, i + Len(kw) - 1) = kw

FALLBACK_EMERGENCY_KEYWORDS == <<
    <<"h", "e", "l", "p">>,
    <<"e", "m", "e", "r", "g", "e", "n", "c", "y">>,
    <<"u", "r", "g", "e", "n", "t">>,
    <<"r", "e", "s", "c", "u", "e">>,
    <<"d", "a", "n", "g", "e", "r">>,
    <<"s", "a", "v", "e", " ", "m", "e">>,
    <<"i", " ", "n", "e", "e", "d", " ", "h", "e", "l", "p">>,
    <<"f", "e", "l", "l">>,
    <<"i", " ", "f", "e", "l", "l">>,
    <<"f", "a", "l", "l", " ", "d", "e", "t", "e", "c", "t", "e", "d">>,
    <<"a", "c", "c", "i", "d", "e", "n", "t">>,
    <<"U+0B89", "U+0BA4", "U+0BB5", "U+0BBF">>,
    <<"U+0B85", "U+0BB5", "U+0B9A", "U+0BB0", "U+0BAE", "U+0BCD">>,
    <<"U+0B89", "U+0BA4", "U+0BB5", "U+0BBF", " ", "U+0BB5", "U+0BC7",
      "U+0BA3", "U+0BCD", "U+0B9F", "U+0BC1", "U+0BAE", "U+0BCD">>,
    <<"U+0BA8", "U+0BBE", "U+0BA9", "U+0BCD", " ", "U+0BB5", "U+0BBF",
      "U+0BB4", "U+0BC1", "U+0BA8", "U+0BCD", "U+0BA4", "U+0BC1", "U+0BB5",
      "U+0BBF", "U+0B9F", "U+0BCD", "U+0B9F", "U+0BC7", "U+0BA9", "U+0BCD">>,
    <<"U+0BB5", "U+0BBF", "U+0BB4", "U+0BC1", "U+0BA8", "U+0BCD", "U+0BA4",
      "U+0BC7", "U+0BA9", "U+0BCD">>,
    <<"u", "d", "h", "a", "v", "i">>,
    <<"u", "d", "h", "a", "v", "i", " ", "v", "e", "n", "u", "m">>,
    <<"v", "i", "z", "h", "u", "n", "d", "h", "e", "n">>,
    <<"v", "i", "z", "h", "u", "n", "d", "h", "u">> >>

-----------------------------------------------------------------------------
(* The classifier, app.py ml_emergency_check. *)

\* the threshold parameter's default, in tenths (0.6)
DefaultThreshold == 6

\* what the model call can do: raise, or give an emergency probability, in
\* tenths (the values around the default threshold, and certainty)
ModelOutputs ==
    {[raised |-> TRUE, prob |-> 0]}
        \cup {[raised |-> FALSE, prob |-> p] : p \in {5, 6, 10}}

\* the keyword loop of ml_emergency_check (app.py 139-143)
KeywordMatch(t) ==
    \E k \in 1..Len(FALLBACK_EMERGENCY_KEYWORDS) :
        In(FALLBACK_EMERGENCY_KEYWORDS[k], Lower(t))

\* the guard of the model path with the readiness flag forgotten
ModelUsableNoFlag == tokenizer /= None /\ model /= None

\* `model_ready and tokenizer and model` (app.py 144)
ModelUsable == model_ready /\ tokenizer /= None /\ model /= None

\* whether ml_emergency_check(t) reaches the tokenizer/model call
ModelInvoked(t) == t /= <<>> /\ ~KeywordMatch(t) /\ ModelUsable

\* ml_emergency_check(t, threshold) when the model call, if made, does `out`
ml_emergency_check(t, threshold, out) ==
    IF t = <<>> THEN FALSE
    ELSE IF KeywordMatch(t) THEN TRUE
    ELSE IF ModelUsable
         THEN (IF out.raised THEN FALSE ELSE out.prob >= threshold)
         ELSE FALSE

NoCheck == [done |-> FALSE, result |-> FALSE, invoked |-> FALSE,
            model_ready |-> FALSE, tokenizer |-> None, model |-> None]

\* the call of ml_emergency_check on `text`, with the globals it saw
Classify ==
    /\ ~check.done
    /\ \E out \in ModelOutputs :
         check' = [done |-> TRUE,
                   result |-> ml_emergency_check(text, DefaultThreshold, out),
                   invoked |-> ModelInvoked(text),
                   model_ready |-> model_ready,
                   tokenizer |-> tokenizer,
                   model |-> model]
    /\ UNCHANGED <<clsVars, text, cfgVars, appVars, concVars, utilVars>>

-----------------------------------------------------------------------------
(* The background loader thread, app.py load_ml_model_background. *)

\* app.py 113-115: nothing to load without transformers
LoaderStart ==
    /\ loader_pc = "start"
    /\ loader_pc' = IF TRANSFORMERS_AVAILABLE THEN "tokenizer" ELSE "returned"
    /\ UNCHANGED <<TRANSFORMERS_AVAILABLE, tokenizer, model, model_ready>>
    /\ UNCHANGED <<chkVars, cfgVars, appVars, concVars, utilVars>>

\* the loader with `model_ready = True` of app.py 121 moved up, right after
\* the tokenizer is loaded
LoadTokenizerSetsReady ==
    /\ loader_pc = "tokenizer"
    /\ \E ok \in BOOLEAN :
         IF ok THEN /\ tokenizer' = "loaded"
                    /\ model_ready' = TRUE
                    /\ loader_pc' = "model"
               ELSE /\ tokenizer' = tokenizer
                    /\ model_ready' = model_ready
                    /\ loader_pc' = "failed"
    /\ UNCHANGED <<TRANSFORMERS_AVAILABLE, model>>
    /\ UNCHANGED <<chkVars, cfgVars, appVars, concVars, utilVars>>

\* app.py 118: AutoTokenizer.from_pretrained, which may raise (123-124)
LoadTokenizer ==
    /\ loader_pc = "tokenizer"
    /\ \E ok \in BOOLEAN :
         IF ok THEN tokenizer' = "loaded" /\ loader_pc' = "model"
               ELSE tokenizer' = tokenizer /\ loader_pc' = "failed"
    /\ UNCHANGED <<TRANSFORMERS_AVAILABLE, model, model_ready>>
    /\ UNCHANGED <<chkVars, cfgVars, appVars, concVars, utilVars>>

\* app.py 119: AutoModelForSequenceClassification.from_pretrained
LoadModel ==
    /\ loader_pc = "model"
    /\ \E ok \in BOOLEAN :
         IF ok THEN model' = "loaded" /\ loader_pc' = "eval"
               ELSE model' = model /\ loader_pc' = "failed"
    /\ UNCHANGED <<TRANSFORMERS_AVAILABLE, tokenizer, model_ready>>
    /\ UNCHANGED <<chkVars, cfgVars, appVars, concVars, utilVars>>

\* app.py 120-121: model.eval(), then model_ready = True
ModelEval ==
    /\ loader_pc = "eval"
    /\ \E ok \in BOOLEAN :
         IF ok THEN model_ready' = TRUE /\ loader_pc' = "returned"
               ELSE model_ready' = model_ready /\ loader_pc' = "failed"
    /\ UNCHANGED <<TRANSFORMERS_AVAILABLE, tokenizer, model>>
    /\ UNCHANGED <<chkVars, cfgVars, appVars, concVars, utilVars>>

Loader == LoaderStart \/ LoadTokenizer \/ LoadModel \/ ModelEval

InitLoader ==
    /\ TRANSFORMERS_AVAILABLE \in BOOLEAN
    /\ loader_pc = "start"
    /\ tokenizer = None
    /\ model = None
    /\ model_ready = FALSE

-----------------------------------------------------------------------------
(* Configuration, app.py 49-94. *)

EnvNames == {"TWILIO_ACCOUNT_SID", "TWILIO_AUTH_TOKEN", "TWILIO_NUMBER",
             "TWILIO_PHONE_NUMBER", "VERIFIED_NUMBER", "EMERGENCY_CONTACT"}

\* the environments tried: everything set, one variable missing, the sender
\* or the recipient missing under both of its names, nothing set
EnvConfigs ==
    {EnvNames, {}}
        \cup {EnvNames \ {v} : v \in EnvNames}
        \cup {EnvNames \ {"TWILIO_NUMBER", "TWILIO_PHONE_NUMBER"},
              EnvNames \ {"VERIFIED_NUMBER", "EMERGENCY_CONTACT"}}

\* the environments the application is run in: the sender under its second
\* name only, and that with no recipient
AppEnvConfigs ==
    {EnvNames \ {"TWILIO_NUMBER"},
     EnvNames \ {"TWILIO_NUMBER", "VERIFIED_NUMBER", "EMERGENCY_CONTACT"}}

\* os.getenv(name) is truthy
Getenv(name) == name \in env

\* app.py 54
TWILIO_NUMBER == Getenv("TWILIO_NUMBER") \/ Getenv("TWILIO_PHONE_NUMBER")

\* app.py 55
VERIFIED_NUMBER == Getenv("VERIFIED_NUMBER") \/ Getenv("EMERGENCY_CONTACT")

\* app.py 83: all([...]) before the client is built
AllConfigured ==
    /\ Getenv("TWILIO_ACCOUNT_SID")
    /\ Getenv("TWILIO_AUTH_TOKEN")
    /\ TWILIO_NUMBER
    /\ VERIFIED_NUMBER

\* app.py 83-94: TWILIO_AVAILABLE once the module is loaded; client is None
\* exactly when it is false
TWILIO_AVAILABLE == AllConfigured /\ client_ok

\* app.py 58 (the default of the environment variable)
FALL_ALERT_COOLDOWN == 60

\* app.py 62
ALERT_COOLDOWN == 15

MaxTime == StartTime + MaxTicks * TickStep

-----------------------------------------------------------------------------
(* The alert dispatcher, app.py send_emergency_alert. *)

NoUrl == [set |-> FALSE, lat |-> 0, lng |-> 0]

\* the cooldown test against the mic monitor's shorter cooldown
CooldownActiveMic(now) == now - alert_last_time < ALERT_COOLDOWN

\* app.py 256
CooldownActive(now) == now - alert_last_time < FALL_ALERT_COOLDOWN

\* app.py 251-280: what a call started at `now` does when messages.create
\* and calls.create, if reached, succeed (smsOk, callOk) or raise
AlertOutcome(now, smsOk, callOk) ==
    IF ~TWILIO_AVAILABLE
    THEN [why |-> "unavailable", sms |-> "none", call |-> "none", ret |-> FALSE]
    ELSE IF CooldownActive(now)
    THEN [why |-> "suppressed", sms |-> "none", call |-> "none", ret |-> FALSE]
    ELSE IF ~smsOk
    THEN [why |-> "sms_error", sms |-> "error", call |-> "none", ret |-> FALSE]
    ELSE [why |-> "sent", sms |-> "ok",
          call |-> IF callOk THEN "ok" ELSE "error", ret |-> TRUE]

\* the assignment of app.py 279 without the `global` of app.py 250: it
\* binds a local, and the timestamp stays
StampLocal(r, now) == alert_last_time

\* the assignment of app.py 279 moved above the SMS attempt: every call
\* that gets past the cooldown check stamps, sent or not
StampOnAttempt(r, now) ==
    IF r.why \in {"sent", "sms_error"} THEN now ELSE alert_last_time

\* app.py 279: the timestamp after a call with outcome r
Stamp(r, now) == IF r.ret THEN now ELSE alert_last_time

\* app.py 260-262: the SMS body, line by line
SmsBody(message_text, location_url) ==
    << [kind |-> "header", text |-> <<"Emergency Alert">>, url |-> NoUrl],
       [kind |-> "message", text |-> message_text, url |-> NoUrl] >>
    \o (IF location_url.set
        THEN << [kind |-> "location", text |-> <<"Location: ">>,
                 url |-> location_url] >>
        ELSE <<>>)

\* the outcomes of the two Twilio requests that a call can meet
TwilioOutcomes(now) ==
    IF TWILIO_AVAILABLE /\ ~CooldownActive(now)
    THEN {[smsOk |-> a, callOk |-> b] : a, b \in BOOLEAN}
    ELSE {[smsOk |-> TRUE, callOk |-> TRUE]}

NoCall == [by |-> "none", start |-> 0, why |-> "none", sms |-> "none",
           call |-> "none", ret |-> FALSE]

NoPrior == [any |-> FALSE, any_start |-> 0, ok |-> FALSE, ok_start |-> 0]

\* send_emergency_alert(message_text, location_url), called by `by`
SendEmergencyAlert(by, message_text, location_url, tw) ==
    LET now == time
        r == AlertOutcome(now, tw.smsOk, tw.callOk)
    IN  /\ alert_last_time' = Stamp(r, now)
        /\ sms_body' = IF r.sms /= "none"
                       THEN SmsBody(message_text, location_url)
                       ELSE sms_body
        /\ last_call' = [by |-> by, start |-> now, why |-> r.why,
                         sms |-> r.sms, call |-> r.call, ret |-> r.ret]
        /\ prior' = IF last_call.by = "none" THEN prior
                    ELSE [any |-> TRUE, any_start |-> last_call.start,
                          ok |-> prior.ok \/ last_call.ret,
                          ok_start |-> IF last_call.ret THEN last_call.start
                                       ELSE prior.ok_start]

-----------------------------------------------------------------------------
(* The /voice_input route, app.py voice_input. *)

IsSpace(c) == c = " "

\* str.strip()
RECURSIVE Strip(_)
Strip(s) ==
    IF s = <<>> THEN s
    ELSE IF IsSpace(Head(s)) THEN Strip(Tail(s))
    ELSE IF IsSpace(s[Len(s)]) THEN Strip(SubSeq(s, 1, Len(s) - 1))
    ELSE s

\* str.startswith
StartsWith(s, prefix) ==
    Len(s) >= Len(prefix) /\ SubSeq(s, 1, Len(prefix)) = prefix

\* the request texts tried: "", " Help ", "hi", "Play x"
SampleTexts == { <<>>, <<" ", "H", "e", "l", "p", " ">>, <<"h", "i">>,
                 <<"P", "l", "a", "y", " ", "x">> }

\* a coordinate of the request: absent, or a number
Absent == [has |-> FALSE, v |-> 0]
Number(n) == [has |-> TRUE, v |-> n]

\* the request locations tried: no dict, {latitude: 12, longitude: 77},
\* {latitude: 0, longitude: 77}
Locations ==
    {[dict |-> FALSE, latitude |-> Absent, longitude |-> Absent],
     [dict |-> TRUE, latitude |-> Number(12), longitude |-> Number(77)],
     [dict |-> TRUE, latitude |-> Number(0), longitude |-> Number(77)]}

\* the request bodies tried: one that makes app.py 323-324 raise (no JSON
\* object, or a text that is no string), and every text with every location
Requests ==
    {[malformed |-> TRUE, text |-> <<>>,
      location |-> [dict |-> FALSE, latitude |-> Absent,
                    longitude |-> Absent]]}
        \cup {[malformed |-> FALSE, text |-> t, location |-> l] :
                t \in SampleTexts, l \in Locations}

\* Python's truth value of location.get(...)
Truthy(c) == c.has /\ c.v /= 0

\* app.py 326-331: the map link, or None
LocationUrl(location) ==
    IF location.dict /\ Truthy(location.latitude) /\ Truthy(location.longitude)
    THEN [set |-> TRUE, lat |-> location.latitude.v,
          lng |-> location.longitude.v]
    ELSE NoUrl

\* a request without a location object
NoLocation == [dict |-> FALSE, latitude |-> Absent, longitude |-> Absent]

\* the last response, with the location of its request, what the classifier
\* returned and what the handler called
NoResp == [code |-> 0, path |-> "none", status |-> "none",
           location |-> NoLocation, emergency_trigger |-> FALSE, ran |-> <<>>]

\* the handler with the "play " test of app.py 344 moved above the
\* classifier: a media request is served without being classified
RouteMediaFirst(txt, emergency_trigger) ==
    IF StartsWith(Lower(txt), <<"p", "l", "a", "y", " ">>)
    THEN <<"get_first_youtube_video_url">>
    ELSE IF emergency_trigger
    THEN <<"ml_emergency_check", "send_emergency_alert">>
    ELSE <<"ml_emergency_check", "generate_ai_reply">>

\* app.py 337-357: what the handler calls on the utterance, in order, when
\* ml_emergency_check returns emergency_trigger
Route(txt, emergency_trigger) ==
    <<"ml_emergency_check">> \o
        (IF emergency_trigger
         THEN <<"send_emergency_alert">>
         ELSE IF StartsWith(Lower(txt), <<"p", "l", "a", "y", " ">>)
         THEN <<"get_first_youtube_video_url">>
         ELSE <<"generate_ai_reply">>)

\* the response path that ends a route
PathOf(ran) ==
    CASE ran[Len(ran)] = "send_emergency_alert" -> "alert"
      [] ran[Len(ran)] = "get_first_youtube_video_url" -> "media"
      [] OTHER -> "reply"

\* the model outputs that a call of ml_emergency_check(t) can meet
OutputsFor(t) ==
    IF ModelInvoked(t) THEN ModelOutputs ELSE {[raised |-> FALSE, prob |-> 0]}

\* one /voice_input request, from the JSON body to the response
VoiceInput ==
    \E req \in Requests :
        IF req.malformed
        THEN \* app.py 323-324 raised: the handler's except answers 500
             /\ resp' = [code |-> 500, path |-> "error", status |-> "Error",
                         location |-> NoLocation,
                         emergency_trigger |-> FALSE, ran |-> <<>>]
             /\ UNCHANGED <<time, alert_last_time, last_alert_time,
                            latest_location_url, last_call, prior, sms_body>>
             /\ UNCHANGED <<clsVars, chkVars, cfgVars, concVars, utilVars>>
        ELSE LET txt == Strip(req.text)
                 location_url == LocationUrl(req.location)
             IN  /\ latest_location_url' =
                        IF location_url.set THEN location_url
                        ELSE latest_location_url
                 /\ \E out \in OutputsFor(txt) :
                      \E emergency_trigger \in
                            {ml_emergency_check(txt, DefaultThreshold, out)} :
                      \E ran \in {Route(txt, emergency_trigger)} :
                          IF ran[Len(ran)] = "send_emergency_alert"
                          THEN /\ \E tw \in TwilioOutcomes(time) :
                                    SendEmergencyAlert(
                                        "voice_input",
                                        <<"Message: ">> \o
                                            (IF txt /= <<>> THEN txt
                                             ELSE <<"Emergency detected">>),
                                        location_url, tw)
                               /\ resp' =
                                    [code |-> 200, path |-> PathOf(ran),
                                     status |->
                                         IF last_call'.ret
                                         THEN "Emergency alert sent"
                                         ELSE "failed to send alert",
                                     location |-> req.location,
                                     emergency_trigger |-> emergency_trigger,
                                     ran |-> ran]
                          ELSE /\ resp' =
                                    [code |-> 200, path |-> PathOf(ran),
                                     status |-> "reply",
                                     location |-> req.location,
                                     emergency_trigger |-> emergency_trigger,
                                     ran |-> ran]
                               /\ UNCHANGED <<alert_last_time, last_call,
                                              prior, sms_body>>
                 /\ UNCHANGED <<time, last_alert_time>>
                 /\ UNCHANGED <<clsVars, chkVars, cfgVars, concVars, utilVars>>

-----------------------------------------------------------------------------
(* The background mic monitor, app.py start_background_sound_monitor. *)

\* app.py 291-303: one audio block, loud (volume above the threshold) or not
MicCallback ==
    \E loud \in BOOLEAN :
        /\ IF loud /\ time - last_alert_time > ALERT_COOLDOWN
           THEN /\ \E tw \in TwilioOutcomes(time) :
                     SendEmergencyAlert(
                         "mic", <<"Loud sound detected - possible fall">>,
                         latest_location_url, tw)
                /\ last_alert_time' = time
           ELSE UNCHANGED <<alert_last_time, last_call, prior, sms_body,
                            last_alert_time>>
        /\ UNCHANGED <<time, latest_location_url, resp>>
        /\ UNCHANGED <<clsVars, chkVars, cfgVars, concVars, utilVars>>

\* the clock moves on
Tick ==
    /\ time + TickStep <= MaxTime
    /\ time' = time + TickStep
    /\ UNCHANGED <<alert_last_time, last_alert_time, latest_location_url,
                   last_call, prior, sms_body, resp>>
    /\ UNCHANGED <<clsVars, chkVars, cfgVars, concVars, utilVars>>

-----------------------------------------------------------------------------
(* app.py send_emergency_alert entered by two threads at once: a Flask     *)
(* request thread that is in voice_input with an emergency utterance       *)
(* (app.py 340) and the sounddevice callback thread (app.py 302).  Each    *)
(* statement that reads or writes a global is a step.                      *)

Threads == {"req", "mic"}

IdleThread == [pc |-> "idle", now |-> 0, cb_now |-> 0, sms |-> "none",
               call |-> "none", ret |-> FALSE]

\* app.py 296-302 (mic) or 337-340 (request), then 251-255: the call is
\* made, finds Twilio configured or not, and reads the clock
TEnter(t) ==
    /\ th[t].pc = "idle"
    /\ t = "mic" => time - last_alert_time > ALERT_COOLDOWN
    /\ th' = [th EXCEPT ![t] =
                [pc |-> IF TWILIO_AVAILABLE THEN "check" ELSE "return",
                 now |-> time, cb_now |-> time, sms |-> "none",
                 call |-> "none", ret |-> FALSE]]
    /\ UNCHANGED <<clsVars, chkVars, cfgVars, appVars, utilVars>>

\* app.py 256-258: the cooldown test against the global timestamp
TCheck(t) ==
    /\ th[t].pc = "check"
    /\ th' = [th EXCEPT ![t].pc =
                IF CooldownActive(th[t].now) THEN "return" ELSE "sms"]
    /\ UNCHANGED <<clsVars, chkVars, cfgVars, appVars, utilVars>>

\* app.py 264-269: client.messages.create
TSms(t) ==
    /\ th[t].pc = "sms"
    /\ \E ok \in BOOLEAN :
         th' = [th EXCEPT ![t].sms = IF ok THEN "ok" ELSE "error",
                          ![t].pc = IF ok THEN "call" ELSE "return"]
    /\ UNCHANGED <<clsVars, chkVars, cfgVars, appVars, utilVars>>

\* app.py 271-277: client.calls.create
TCall(t) ==
    /\ th[t].pc = "call"
    /\ \E ok \in BOOLEAN :
         th' = [th EXCEPT ![t].call = IF ok THEN "ok" ELSE "error",
                          ![t].pc = "stamp"]
    /\ UNCHANGED <<clsVars, chkVars, cfgVars, appVars, utilVars>>

\* app.py 279-280: _alert_last_time = now; return True
TStamp(t) ==
    /\ th[t].pc = "stamp"
    /\ alert_last_time' = th[t].now
    /\ th' = [th EXCEPT ![t].ret = TRUE, ![t].pc = "return"]
    /\ UNCHANGED <<time, last_alert_time, latest_location_url, last_call,
                   prior, sms_body, resp>>
    /\ UNCHANGED <<clsVars, chkVars, cfgVars, utilVars>>

\* back in the caller: app.py 303 (mic) or 341-342 (request)
TReturn(t) ==
    /\ th[t].pc = "return"
    /\ th' = [th EXCEPT ![t].pc = "idle"]
    /\ last_alert_time' = IF t = "mic" THEN th[t].cb_now ELSE last_alert_time
    /\ UNCHANGED <<time, alert_last_time, latest_location_url, last_call,
                   prior, sms_body, resp>>
    /\ UNCHANGED <<clsVars, chkVars, cfgVars, utilVars>>

ThreadStep ==
    \E t \in Threads :
        TEnter(t) \/ TCheck(t) \/ TSms(t) \/ TCall(t) \/ TStamp(t)
            \/ TReturn(t)

InitThreads == th = [t \in Threads |-> IdleThread]

-----------------------------------------------------------------------------
(* utils/emergency_alert.py send_emergency_alert and its callers           *)
(* (utils/intent_classifier.py handle_intent, utils/speech_to_text.py      *)
(* listen_and_process, and a caller that passes its own arguments).  Each  *)
(* Twilio request is a step: the loops sleep between attempts.             *)

\* emergency_alert.py 42: the default of retries
DefaultRetries == 2

\* the largest retries argument tried
MaxRetries == 2

NoResults == [sms |-> "None", call |-> "None"]

NoDispatch == [pc |-> "idle", caller |-> "none", send_sms |-> FALSE,
               make_call |-> FALSE, retries |-> 0, attempt |-> 0,
               sms_hist |-> <<>>, call_hist |-> <<>>, results |-> NoResults,
               raised |-> "None", outcome |-> "none", reply |-> "none"]

\* what one Twilio request can do: succeed, raise TwilioRestException, or
\* raise something else (a connection error, a timeout)
Attempts == {"ok", "TwilioRestException", "OtherException"}

\* the calls tried: handle_intent with each intent, listen_and_process with
\* a transcript that holds one of its keywords or none, and a direct call
\* with each combination of send_sms, make_call and retries
Invocations ==
    {[caller |-> "handle_intent", emergency |-> i = "emergency", intent |-> i,
      send_sms |-> TRUE, make_call |-> TRUE, retries |-> DefaultRetries] :
        i \in {"emergency", "reminder", "greeting", "unknown"}}
    \cup {[caller |-> "listen_and_process", emergency |-> e, intent |-> "none",
           send_sms |-> TRUE, make_call |-> TRUE,
           retries |-> DefaultRetries] : e \in BOOLEAN}
    \cup {[caller |-> "direct", emergency |-> TRUE, intent |-> "none",
           send_sms |-> a, make_call |-> b, retries |-> r] :
            a, b \in BOOLEAN, r \in 0..MaxRetries}

\* intent_classifier.py 26-33, speech_to_text.py 66: the reply when no alert
\* is sent
PlainReply(inv) ==
    CASE inv.intent = "reminder" -> "What reminder should I set?"
      [] inv.intent = "greeting" -> "Hello! How can I help you today?"
      [] inv.intent = "unknown" -> "Sorry, I didn't understand that."
      [] OTHER -> "You said"

\* an entry point is called; it reaches send_emergency_alert or answers
\* without it
UStart ==
    /\ u.pc \in {"idle", "done"}
    /\ \E inv \in Invocations :
         u' = IF inv.emergency
              THEN [NoDispatch EXCEPT !.pc = "config", !.caller = inv.caller,
                                      !.send_sms = inv.send_sms,
                                      !.make_call = inv.make_call,
                                      !.retries = inv.retries]
              ELSE [NoDispatch EXCEPT !.pc = "done", !.caller = inv.caller,
                                      !.outcome = "reply",
                                      !.reply = PlainReply(inv)]
    /\ UNCHANGED <<clsVars, chkVars, cfgVars, appVars, concVars>>

\* emergency_alert.py 59-62 and 27-29: what the function needs of the
\* environment
UtilsConfigured ==
    /\ Getenv("TWILIO_PHONE_NUMBER")
    /\ Getenv("EMERGENCY_CONTACT")
    /\ Getenv("TWILIO_ACCOUNT_SID")
    /\ Getenv("TWILIO_AUTH_TOKEN")

\* where the function goes once the SMS part is over
AfterSms(d) == IF d.make_call THEN "call" ELSE "return"

\* emergency_alert.py 57-76: the configuration is read; EnvironmentError is
\* raised when it is missing
UConfig ==
    /\ u.pc = "config"
    /\ u' = IF ~UtilsConfigured
            THEN [u EXCEPT !.raised = "EnvironmentError", !.pc = "return"]
            ELSE [u EXCEPT !.attempt = 1,
                           !.pc = IF u.send_sms THEN "sms" ELSE AfterSms(u)]
    /\ UNCHANGED <<clsVars, chkVars, cfgVars, appVars, concVars>>

\* a retry test that gives up one attempt early
MoreAttemptsShort(attempt, retries) == attempt < retries

\* emergency_alert.py 90 and 111: `attempt <= retries`, another attempt
\* follows
MoreAttempts(attempt, retries) == attempt <= retries

\* emergency_alert.py 77-93: one pass of the SMS loop
USms ==
    /\ u.pc = "sms"
    /\ \E a \in Attempts :
         u' = CASE a = "ok" ->
                     [u EXCEPT !.sms_hist = Append(@, a),
                               !.results.sms = "sent",
                               !.attempt = 1, !.pc = AfterSms(u)]
                [] a = "TwilioRestException" ->
                     IF MoreAttempts(u.attempt, u.retries)
                     THEN [u EXCEPT !.sms_hist = Append(@, a),
                                    !.attempt = @ + 1]
                     ELSE [u EXCEPT !.sms_hist = Append(@, a),
                                    !.results.sms = "failed",
                                    !.attempt = 1, !.pc = AfterSms(u)]
                [] OTHER ->
                     [u EXCEPT !.sms_hist = Append(@, a),
                               !.raised = "Exception", !.pc = "return"]
    /\ UNCHANGED <<clsVars, chkVars, cfgVars, appVars, concVars>>

\* emergency_alert.py 97-114: one pass of the call loop
UCall ==
    /\ u.pc = "call"
    /\ \E a \in Attempts :
         u' = CASE a = "ok" ->
                     [u EXCEPT !.call_hist = Append(@, a),
                               !.results.call = "sent", !.pc = "return"]
                [] a = "TwilioRestException" ->
                     IF MoreAttempts(u.attempt, u.retries)
                     THEN [u EXCEPT !.call_hist = Append(@, a),
                                    !.attempt = @ + 1]
                     ELSE [u EXCEPT !.call_hist = Append(@, a),
                                    !.results.call = "failed",
                                    !.pc = "return"]
                [] OTHER ->
                     [u EXCEPT !.call_hist = Append(@, a),
                               !.raised = "Exception", !.pc = "return"]
    /\ UNCHANGED <<clsVars, chkVars, cfgVars, appVars, concVars>>

\* emergency_alert.py 116 or a raise, back in the caller:
\* intent_classifier.py 20-24 catches, speech_to_text.py 62-64 does not
UReturn ==
    /\ u.pc = "return"
    /\ u' = CASE u.caller = "handle_intent" ->
                   [u EXCEPT !.pc = "done", !.outcome = "reply",
                             !.reply = IF u.raised = "None"
                                       THEN "Emergency alert has been sent."
                                       ELSE "Failed to send emergency alert"]
              [] u.caller = "listen_and_process" ->
                   IF u.raised = "None"
                   THEN [u EXCEPT !.pc = "done", !.outcome = "reply",
                                  !.reply = "Emergency detected!"]
                   ELSE [u EXCEPT !.pc = "done", !.outcome = "unhandled"]
              [] OTHER ->
                   [u EXCEPT !.pc = "done",
                             !.outcome = IF u.raised = "None" THEN "result"
                                         ELSE "unhandled"]
    /\ UNCHANGED <<clsVars, chkVars, cfgVars, appVars, concVars>>

-----------------------------------------------------------------------------
(* The application, one handler at a time. *)

InitConfig ==
    /\ env \in AppEnvConfigs
    /\ client_ok \in (IF AllConfigured THEN BOOLEAN ELSE {FALSE})

InitApp ==
    /\ time = StartTime
    /\ alert_last_time = 0
    /\ last_alert_time = 0
    /\ latest_location_url = NoUrl
    /\ last_call = NoCall
    /\ prior = NoPrior
    /\ sms_body = <<>>
    /\ resp = NoResp

\* the loader thread has ended: without transformers, or with the model
\* loaded, or on a failed load
LoaderEnded ==
    /\ TRANSFORMERS_AVAILABLE \in BOOLEAN
    /\ loader_pc \in (IF TRANSFORMERS_AVAILABLE THEN {"returned", "failed"}
                      ELSE {"returned"})
    /\ model_ready = (TRANSFORMERS_AVAILABLE /\ loader_pc = "returned")
    /\ tokenizer = IF model_ready THEN "loaded" ELSE None
    /\ model = IF model_ready THEN "loaded" ELSE None

Init ==
    /\ LoaderEnded
    /\ text = <<>>
    /\ check = NoCheck
    /\ InitConfig
    /\ InitApp
    /\ InitThreads
    /\ u = NoDispatch

Next == VoiceInput \/ MicCallback \/ Tick

Spec == Init /\ [][Next]_vars

-----------------------------------------------------------------------------
(* The classifier on every text up to MaxLen, beside the loader thread. *)

InitClassify ==
    /\ InitLoader
    /\ text \in Texts
    /\ check = NoCheck
    /\ env = EnvNames
    /\ client_ok = TRUE
    /\ InitApp
    /\ InitThreads
    /\ u = NoDispatch

NextClassify == Loader \/ Classify

SpecClassify == InitClassify /\ [][NextClassify]_vars

-----------------------------------------------------------------------------
(* The dispatcher of app.py under concurrent callers. *)

InitConc ==
    /\ LoaderEnded
    /\ text = <<>>
    /\ check = NoCheck
    /\ env = EnvNames
    /\ client_ok = TRUE
    /\ InitApp
    /\ InitThreads
    /\ u = NoDispatch

NextConc == ThreadStep \/ Tick

SpecConc == InitConc /\ [][NextConc]_vars

-----------------------------------------------------------------------------
(* The dispatcher of utils/emergency_alert.py under every environment. *)

InitUtils ==
    /\ LoaderEnded
    /\ text = <<>>
    /\ check = NoCheck
    /\ env \in EnvConfigs
    /\ client_ok = AllConfigured
    /\ InitApp
    /\ InitThreads
    /\ u = NoDispatch

NextUtils == UStart \/ UConfig \/ USms \/ UCall \/ UReturn

SpecUtils == InitUtils /\ [][NextUtils]_vars

-----------------------------------------------------------------------------
(* Properties of the dispatcher of app.py, one handler at a time (Spec). *)

\* a step in which send_emergency_alert was called
NewCall == <<last_call, prior>>' /= <<last_call, prior>>

\* when the successful dispatches so far started (the latest of them, and
\* the latest before the latest call)
OkStarts ==
    (IF last_call.ret THEN {last_call.start} ELSE {})
        \cup (IF prior.ok THEN {prior.ok_start} ELSE {})

\* C1: once a call that started at t has dispatched successfully, a later
\* call that starts before t + FALL_ALERT_COOLDOWN contacts neither the SMS
\* nor the call channel.
C1_NoAlertInCooldown ==
    [][\A t \in OkStarts :
          (NewCall /\ last_call'.start < t + FALL_ALERT_COOLDOWN)
              => (last_call'.sms = "none" /\ last_call'.call = "none")]_vars

\* C1 happens: after a successful dispatch, a later loud sound inside the
\* window reached the dispatcher and was suppressed
C1_Witness ==
    /\ prior.ok
    /\ last_call.by = "mic"
    /\ last_call.start > prior.ok_start
    /\ last_call.start < prior.ok_start + FALL_ALERT_COOLDOWN
    /\ last_call.sms = "none"

C4_CallAfterSmsFailure ==
    last_call.sms /= "none" => last_call.call /= "none"

\* C7: a call the cooldown does not suppress (no dispatch has succeeded
\* yet, or the last one started FALL_ALERT_COOLDOWN or more seconds before)
\* attempts both the SMS and the call.
C7_BothChannelsAttempted ==
    (/\ TWILIO_AVAILABLE
     /\ last_call.by /= "none"
     /\ prior.ok => last_call.start - prior.ok_start >= FALL_ALERT_COOLDOWN)
        => (last_call.sms /= "none" /\ last_call.call /= "none")

\* C11: _alert_last_time starts at 0, the "never sent" value; a step changes
\* it only if it is a call of send_emergency_alert that sent the SMS,
\* attempted the call and returned True, and such a call sets it, to the
\* time the call started; a call that was unavailable, suppressed or whose
\* SMS failed, and every other step of voice_input, the mic callback and the
\* clock, leaves it as it was.
C11_TimestampFrame ==
    /\ alert_last_time = 0
    /\ [][/\ (alert_last_time' /= alert_last_time)
              => /\ NewCall
                 /\ last_call'.why = "sent"
                 /\ last_call'.ret
                 /\ last_call'.sms = "ok"
                 /\ last_call'.call \in {"ok", "error"}
                 /\ alert_last_time' = last_call'.start
          /\ (NewCall /\ last_call'.why = "sent")
              => /\ alert_last_time' = last_call'.start
                 /\ alert_last_time' /= alert_last_time
          /\ (NewCall /\ last_call'.why /= "sent")
              => alert_last_time' = alert_last_time]_vars

\* C11 happens: a dispatch succeeded and stamped; after the cooldown a second
\* one got past the checks, its SMS failed, and the stamp is still that of
\* the first; the mic monitor's own timer has moved meanwhile
C11_Witness ==
    /\ prior.ok
    /\ last_call.why = "sms_error"
    /\ last_call.start >= prior.ok_start + FALL_ALERT_COOLDOWN
    /\ alert_last_time = prior.ok_start
    /\ last_alert_time /= alert_last_time
    /\ resp.path = "reply"

MapLink(location) ==
    [set |-> TRUE, lat |-> location.latitude.v, lng |-> location.longitude.v]

\* C13: after a /voice_input request whose location object carries a
\* latitude and a longitude, 0 included, the latest known location is the
\* map link of that latitude and longitude, and when the request was an
\* emergency whose SMS was composed and sent, the last line of the SMS body
\* is the location line with that link.
C13_LocationLinked ==
    (/\ resp.code = 200
     /\ resp.location.dict
     /\ resp.location.latitude.has
     /\ resp.location.longitude.has)
        => /\ latest_location_url = MapLink(resp.location)
           /\ (/\ resp.path = "alert"
               /\ last_call.by = "voice_input"
               /\ last_call.sms /= "none")
                => /\ sms_body[Len(sms_body)].kind = "location"
                   /\ sms_body[Len(sms_body)].url = MapLink(resp.location)

-----------------------------------------------------------------------------
(* Properties of the dispatcher of app.py under two threads (SpecConc). *)

\* C2: two calls that started less than FALL_ALERT_COOLDOWN apart never
\* both get past the cooldown check and send their SMS.
C2_NoDoubleDispatch ==
    \A a, b \in Threads :
        (a /= b /\ th[a].sms = "ok" /\ th[b].sms = "ok")
            => \/ th[a].now - th[b].now >= FALL_ALERT_COOLDOWN
               \/ th[b].now - th[a].now >= FALL_ALERT_COOLDOWN

-----------------------------------------------------------------------------
(* Properties of the classifier (SpecClassify). *)

\* the same letter, whatever the case
SameLetter(a, b) == a = b \/ {a, b} \in {{"h", "H"}, {"p", "P"}}

\* kw occurs in t at offset i, compared case-insensitively
OccursAt(kw, t, i) ==
    /\ i + Len(kw) - 1 <= Len(t)
    /\ \A j \in 1..Len(kw) : SameLetter(t[i + j - 1], kw[j])

\* t contains a configured keyword as a substring, case-insensitively
ContainsKeyword(t) ==
    \E k \in 1..Len(FALLBACK_EMERGENCY_KEYWORDS), i \in 1..Len(t) :
        OccursAt(FALLBACK_EMERGENCY_KEYWORDS[k], t, i)

\* C5: on a text that contains a keyword, compared case-insensitively,
\* ml_emergency_check returns true, wherever the loader thread is.
C5_KeywordAlwaysTrue ==
    (check.done /\ ContainsKeyword(text)) => check.result

\* C5 happens: a keyword in mixed case, inside a longer text, classified
\* while the model was loaded but not yet ready
C5_Witness ==
    /\ check.done
    /\ ContainsKeyword(text)
    /\ \E i \in 1..Len(text) : text[i] = "H"
    /\ Len(text) > 4
    /\ check.model = "loaded"
    /\ ~check.model_ready
    /\ check.result

\* C6: on a text with no keyword, while the model is absent or not ready,
\* ml_emergency_check returns false without calling the model.
C6_UnreadyReturnsFalse ==
    (/\ check.done
     /\ ~ContainsKeyword(text)
     /\ (~check.model_ready \/ check.tokenizer = None \/ check.model = None))
        => (~check.result /\ ~check.invoked)

\* C6 happens: a text without keyword classified after tokenizer and model
\* were assigned and before model_ready was set
C6_Witness ==
    /\ check.done
    /\ text /= <<>>
    /\ ~ContainsKeyword(text)
    /\ check.tokenizer = "loaded"
    /\ check.model = "loaded"
    /\ ~check.model_ready
    /\ ~check.result
    /\ ~check.invoked

\* C14: wherever the loader thread is, model_ready is true only with the
\* tokenizer and the model both loaded; once true, model_ready stays true,
\* and tokenizer and model, once loaded, stay; while transformers is absent
\* or after the load failed, model_ready is false; and a call of
\* ml_emergency_check reaches the model only having seen all three set.
C14_ReadyMeansLoaded ==
    /\ [](/\ model_ready => (tokenizer = "loaded" /\ model = "loaded")
          /\ (~TRANSFORMERS_AVAILABLE \/ loader_pc = "failed")
                => ~model_ready
          /\ (check.done /\ check.invoked)
                => /\ check.model_ready
                   /\ check.tokenizer = "loaded"
                   /\ check.model = "loaded")
    /\ [][/\ model_ready => model_ready'
          /\ tokenizer = "loaded" => tokenizer' = "loaded"
          /\ model = "loaded" => model' = "loaded"
          /\ loader_pc = "failed" => loader_pc' = "failed"]_vars

\* C14 happens: a text without keyword was classified after the loader had
\* set model_ready, and the model was called
C14_Witness ==
    /\ check.done
    /\ check.invoked
    /\ check.model_ready
    /\ model_ready
    /\ tokenizer = "loaded"
    /\ model = "loaded"
    /\ loader_pc = "returned"

-----------------------------------------------------------------------------
(* Properties of utils/emergency_alert.py and its callers (SpecUtils). *)

\* the dispatch is over: the function has returned or raised
Over == u.pc \in {"return", "done"}

\* C8: with the channel not configured, dispatch contacts no channel and
\* raises nothing to its caller.
C8_UnconfiguredIsNoOp ==
    (Over /\ ~UtilsConfigured)
        => (u.raised = "None" /\ u.sms_hist = <<>> /\ u.call_hist = <<>>)

AllTransient(h) == \A i \in 1..Len(h) : h[i] = "TwilioRestException"

\* what the retry policy allows of one channel: the attempts made, and the
\* result recorded for it, under a budget of r retries
ChannelWithinBudget(enabled, h, res, r) ==
    IF ~enabled THEN h = <<>> /\ res = "None"
    ELSE /\ Len(h) \in 1..(r + 1)
         /\ AllTransient(SubSeq(h, 1, Len(h) - 1))
         /\ res = "sent" <=> h[Len(h)] = "ok"
         /\ res = "failed" <=> (Len(h) = r + 1 /\ AllTransient(h))

\* C9: each enabled channel is attempted at most retries + 1 times, never
\* again after its first success, the call with its own budget whatever
\* the SMS used, and a failure is recorded exactly when all retries + 1
\* attempts of the channel failed.
C9_RetryBudget ==
    /\ Len(u.sms_hist) <= u.retries + 1
    /\ Len(u.call_hist) <= u.retries + 1
    /\ (Over /\ u.raised = "None")
         => /\ ChannelWithinBudget(u.send_sms, u.sms_hist, u.results.sms,
                                   u.retries)
            /\ ChannelWithinBudget(u.make_call, u.call_hist, u.results.call,
                                   u.retries)

\* C9 happens: the SMS used up its three attempts and failed, and the call
\* still had three attempts, the third of which went through
C9_Witness ==
    /\ u.pc = "done"
    /\ u.retries = DefaultRetries
    /\ Len(u.sms_hist) = DefaultRetries + 1
    /\ u.results.sms = "failed"
    /\ Len(u.call_hist) = DefaultRetries + 1
    /\ u.results.call = "sent"

\* C10: no entry point that triggers an alert ends in an exception that
\* nobody caught.
C10_NoUnhandledException ==
    (u.pc = "done" /\ u.caller \in {"handle_intent", "listen_and_process"})
        => u.outcome /= "unhandled"

\* C15: handle_intent("emergency", text) answers that the alert has been
\* sent only when the SMS or the call of that invocation was delivered, and
\* answers with its failure reply when both channels used up their retries.
C15_SentReplyOnlyIfDelivered ==
    (u.pc = "done" /\ u.caller = "handle_intent")
        => /\ u.reply = "Emergency alert has been sent."
                => (u.results.sms = "sent" \/ u.results.call = "sent")
           /\ (u.results.sms = "failed" /\ u.results.call = "failed")
                => u.reply = "Failed to send emergency alert"

=============================================================================
